---- MODULE Spec2Model ----
(***************************************************************************)
(* The bot process supervisor of desktop/src-tauri/src/lib.rs: BotState    *)
(* (process, start_time, each behind its own Mutex), the lifecycle         *)
(* functions stop_bot_internal / start_bot_internal, the commands          *)
(* get_bot_status / get_bot_health / restart_bot, and the entry points of  *)
(* run() (tray and menu handlers, global shortcut, auto-start thread, exit *)
(* handler), together with the OS process table they act on.              *)
(***************************************************************************)
EXTENDS Integers, FiniteSets, Sequences, TLC

\* ---------------------------------------------------------------- bounds
MaxCalls == 2
MaxTime == 2
MaxLines == 2

\* ------------------------------------------------------------- constants
None == 0
NoTime == -1
Free == "free"

\* Threads of control: the event-loop thread that runs the tray, menu,
\* shortcut and exit handlers, a command (IPC) thread, the auto-start thread.
Threads == {"main", "cmd", "auto"}
Streams == {"stdout", "stderr"}
\* Every spawn but the first follows a stop, and the auto-start thread starts
\* once: MaxCalls entry points cannot spawn more than MaxCalls + 1 processes.
Pids == 1..(MaxCalls + 1)
ProbeOutcomes == {"success", "bad_status", "net_error"}

CommandOps == {"start", "stop", "restart", "status", "health"}
MainOps == {"tray_start", "tray_stop", "tray_restart", "toggle", "exit"}
AutoOps == {"autostart"}
OpsOf(t) == IF t = "cmd" THEN CommandOps ELSE IF t = "main" THEN MainOps ELSE AutoOps
RestartOps == {"restart", "tray_restart"}
StartOps == {"start", "tray_start"}
StopOps == {"stop", "tray_stop", "exit"}
PeekOps == {"toggle", "autostart"}

VARIABLES
    process,          \* BotState.process: None or the PID of the Child held
    start_time,       \* BotState.start_time: NoTime or the Instant stored
    process_lock,     \* owner of the Mutex around process
    start_time_lock,  \* owner of the Mutex around start_time
    pc,               \* position of every thread
    op,               \* the entry point a thread is running
    child,            \* the local `child` of start_bot_internal / stop_bot_internal
    ret,              \* value the running internal function returns
    stopRet,          \* value of the stop phase a restart discarded
    starts,           \* start_bot_internal invocations made by the running entry point
    result,           \* outcome of the last entry point a thread completed
    snap,             \* what a thread saw when it acquired the process lock
    os,               \* OS process table: state of every PID
    nextPid,          \* next PID the OS hands out
    termHelpers,      \* `kill -TERM pid` helpers spawned and not yet run
    nHelpers,         \* helper processes spawned so far
    hardKilled,       \* PIDs Child::kill was issued against
    listeners,        \* live listener threads, <<pid, stream>>
    nAttached,        \* listener threads spawned so far
    now,              \* monotonic clock (Instant), in seconds
    calls,            \* commands and handlers begun
    exited,           \* the application has exited
    startCalled,      \* a start call has returned since the last stop call
    lastStartPid,     \* PID returned by a successful start not yet followed by a stop
    stoppedOk,        \* a stop returned success and no start call has run since
    lastUptime,       \* last uptime reported since the tracked worker was started
    race,             \* two start calls invoked together against an idle supervisor
    lastStatus,       \* what the last completed status call read and returned
    pipe,             \* lines written to a worker's pipe and not yet read
    written,          \* every line a worker has written to a pipe so far
    sink,             \* log events received by the log target, in order
    emitted           \* events the running or last entry point of a thread emitted

vars == <<process, start_time, process_lock, start_time_lock, pc, op, child, ret,
          stopRet, starts, result, snap, os, nextPid, termHelpers, nHelpers,
          hardKilled, listeners, nAttached, now, calls, exited, startCalled,
          lastStartPid, stoppedOk, lastUptime, race, lastStatus, pipe, written,
          sink, emitted>>

state == <<process, start_time>>
locks == <<process_lock, start_time_lock>>
world == <<os, nextPid, termHelpers, nHelpers, hardKilled, listeners, nAttached>>
hist == <<startCalled, lastStartPid, stoppedOk, lastUptime>>
logs == <<pipe, written, sink>>

\* --------------------------------------------------------------- values
\* Result<String, String> of the lifecycle functions, BotStatus and BotHealth,
\* with what the call saw when it read the state.
NoRes ==
    [kind |-> "none", pid |-> None, running |-> FALSE, uptime |-> 0,
     probe |-> "none", responsive |-> FALSE, mem |-> "none",
     sawStart |-> None, afterStop |-> FALSE, prevUp |-> 0, failed |-> {}]

Ok(k, p) == [NoRes EXCEPT !.kind = k, !.pid = p]
Err(k) == [NoRes EXCEPT !.kind = k]

IsErr(r) == r.kind \in {"already_running", "not_running", "spawn_failure"}

Reaped == {p \in Pids : os[p] = "reaped"}
Alive == {p \in Pids : os[p] \in {"running", "exited"}}

\* What a lifecycle call finds when it acquires the process lock.
NoSnap == [process |-> None, start_time |-> NoTime, spawned |-> 0, attached |-> 0,
           helpers |-> 0, killed |-> {}, reaped |-> {}, startCalled |-> FALSE,
           lastStart |-> None]
Snapshot == [process |-> process, start_time |-> start_time, spawned |-> nextPid,
             attached |-> nAttached, helpers |-> nHelpers, killed |-> hardKilled,
             reaped |-> Reaped, startCalled |-> startCalled,
             lastStart |-> lastStartPid]

NoRace == [who |-> {}, base |-> 0]

\* The BotStatus the last completed get_bot_status call returned, with the
\* state and the clock it read.
NoStatus == [process |-> None, start_time |-> NoTime, clock |-> NoTime,
             running |-> FALSE, uptime |-> 0, pid |-> None, probe |-> "none"]

\* The pipes of a worker: one per redirected stream.
Pipes == Pids \X Streams

\* Faulty variant of UptimeSeconds: only the seconds within a two-second period.
UptimeSecondsWrapped(st, t) == IF st = NoTime THEN 0 ELSE (t - st) % 2

\* start.elapsed().as_secs(), 0 when no start time is stored
UptimeSeconds(st, t) == IF st = NoTime THEN 0 ELSE t - st

\* Instant::now(): the monotonic clock never reads less than it did before
ClockReadings == now..MaxTime

Init ==
    /\ process = None
    /\ start_time = NoTime
    /\ process_lock = Free
    /\ start_time_lock = Free
    /\ pc = [t \in Threads |-> "idle"]
    /\ op = [t \in Threads |-> "none"]
    /\ child = [t \in Threads |-> None]
    /\ ret = [t \in Threads |-> NoRes]
    /\ stopRet = [t \in Threads |-> NoRes]
    /\ starts = [t \in Threads |-> 0]
    /\ result = [t \in Threads |-> NoRes]
    /\ snap = [t \in Threads |-> NoSnap]
    /\ os = [p \in Pids |-> "unused"]
    /\ nextPid = 1
    /\ termHelpers = {}
    /\ nHelpers = 0
    /\ hardKilled = {}
    /\ listeners = {}
    /\ nAttached = 0
    /\ now = 0
    /\ calls = 0
    /\ exited = FALSE
    /\ startCalled = FALSE
    /\ lastStartPid = None
    /\ stoppedOk = FALSE
    /\ lastUptime = 0
    /\ race = NoRace
    /\ lastStatus = NoStatus
    /\ pipe = [l \in Pipes |-> <<>>]
    /\ written = [l \in Pipes |-> <<>>]
    /\ sink = <<>>
    /\ emitted = [t \in Threads |-> <<>>]

\* A thread arrives at start_bot_internal: its call races with the one other
\* start call that is waiting to enter while nothing is tracked or in progress.
\* `base` is the number of processes spawned before the race.
RaceOnArrive(t, r) ==
    LET waiting == {u \in Threads \ {t} : pc[u] = "start_lock"} IN
    IF process = None /\ process_lock = Free /\ Cardinality(waiting) = 1
    THEN [who |-> {t} \cup waiting, base |-> nextPid - 1]
    ELSE r

\* A lifecycle call by a thread outside the race ends the race.
RaceOnLock(t) == IF t \in race.who THEN race ELSE NoRace

\* ------------------------------------------------------ stop_bot_internal
\* Faulty variant of ProcessAfterTake: the handle is read but not taken.
ProcessAfterPeek(p) == p

\* what process_guard.take() leaves behind in BotState.process
ProcessAfterTake(p) == None

\* Faulty variant of StopNothingTracked: the else branch reports success.
StopNothingTrackedOk == Ok("stopped", None)

\* Err("Bot is not running")
StopNothingTracked == Err("not_running")

\* Faulty variant of StopTake: started_at is cleared as the handle is taken.
StopTakeClearsFirst(t) ==
    /\ pc[t] = "stop_lock"
    /\ process_lock = Free
    /\ process_lock' = t
    /\ snap' = [snap EXCEPT ![t] = Snapshot]
    /\ race' = RaceOnLock(t)
    /\ IF process # None
       THEN /\ child' = [child EXCEPT ![t] = process]
            /\ process' = ProcessAfterTake(process)
            /\ pc' = [pc EXCEPT ![t] = "stop_term"]
            /\ ret' = ret
       ELSE /\ ret' = [ret EXCEPT ![t] = StopNothingTracked]
            /\ pc' = [pc EXCEPT ![t] = "stop_ret"]
            /\ UNCHANGED <<process, child>>
    /\ start_time' = NoTime
    /\ startCalled' = FALSE
    /\ lastStartPid' = None
    /\ UNCHANGED <<start_time_lock, op, stopRet, starts, result, world,
                   now, calls, exited, stoppedOk, lastUptime, lastStatus, logs, emitted>>

\* let mut process_guard = state.process.lock()..;
\* if let Some(mut child) = process_guard.take() { .. } else { Err(..) }
StopTake(t) ==
    /\ pc[t] = "stop_lock"
    /\ process_lock = Free
    /\ process_lock' = t
    /\ snap' = [snap EXCEPT ![t] = Snapshot]
    /\ race' = RaceOnLock(t)
    /\ IF process # None
       THEN /\ child' = [child EXCEPT ![t] = process]
            /\ process' = ProcessAfterTake(process)
            /\ pc' = [pc EXCEPT ![t] = "stop_term"]
            /\ ret' = ret
       ELSE /\ ret' = [ret EXCEPT ![t] = StopNothingTracked]
            /\ pc' = [pc EXCEPT ![t] = "stop_ret"]
            /\ UNCHANGED <<process, child>>
    /\ startCalled' = FALSE
    /\ lastStartPid' = None
    /\ UNCHANGED <<start_time, start_time_lock, op, stopRet, starts, result, world,
                   now, calls, exited, stoppedOk, lastUptime, lastStatus, logs, emitted>>

\* let _ = Command::new("kill").args(["-TERM", pid]).spawn();
\* The helper is spawned and not waited for; a failed spawn is ignored.
\* thread::sleep(Duration::from_millis(500)) follows.
StopTerm(t) ==
    /\ pc[t] = "stop_term"
    /\ \E spawned \in BOOLEAN :
         IF spawned
         THEN /\ termHelpers' = termHelpers \cup {child[t]}
              /\ nHelpers' = nHelpers + 1
         ELSE UNCHANGED <<termHelpers, nHelpers>>
    /\ pc' = [pc EXCEPT ![t] = "stop_kill"]
    /\ UNCHANGED <<state, locks, op, child, ret, stopRet, starts, result, snap, os,
                   nextPid, hardKilled, listeners, nAttached, now, calls, exited,
                   hist, race, lastStatus, logs, emitted>>

\* Child::kill: SIGKILL to a process that has not been reaped
KillProcess(table, p) ==
    IF table[p] = "running" THEN [table EXCEPT ![p] = "exited"] ELSE table

\* let _ = child.kill();
StopKill(t) ==
    /\ pc[t] = "stop_kill"
    /\ os' = KillProcess(os, child[t])
    /\ hardKilled' = hardKilled \cup {child[t]}
    /\ pc' = [pc EXCEPT ![t] = "stop_wait"]
    /\ UNCHANGED <<state, locks, op, child, ret, stopRet, starts, result, snap,
                   nextPid, termHelpers, nHelpers, listeners, nAttached, now, calls,
                   exited, hist, race, lastStatus, logs, emitted>>

\* Faulty variant of ReapProcess: the wait is missing.
ReapProcessSkipped(table, p) == table

\* Child::wait: the exited process is reaped
ReapProcess(table, p) == [table EXCEPT ![p] = "reaped"]

\* let _ = child.wait();  blocks until the process has exited, then reaps it
StopWait(t) ==
    /\ pc[t] = "stop_wait"
    /\ os[child[t]] = "exited"
    /\ os' = ReapProcess(os, child[t])
    /\ pc' = [pc EXCEPT ![t] = "stop_clear"]
    /\ UNCHANGED <<state, locks, op, child, ret, stopRet, starts, result, snap,
                   nextPid, termHelpers, nHelpers, hardKilled, listeners, nAttached,
                   now, calls, exited, hist, race, lastStatus, logs, emitted>>

\* Faulty variant of ClearedStartTime: the start time is left as it was.
ClearedStartTimeKept(st) == st

\* *start_time = None
ClearedStartTime(st) == NoTime

\* let mut start_time = state.start_time.lock()..; *start_time = None;
\* Ok("Bot stopped successfully")
StopClear(t) ==
    /\ pc[t] = "stop_clear"
    /\ start_time_lock = Free
    /\ start_time_lock' = t
    /\ start_time' = ClearedStartTime(start_time)
    /\ ret' = [ret EXCEPT ![t] = Ok("stopped", child[t])]
    /\ child' = [child EXCEPT ![t] = None]
    /\ stoppedOk' = TRUE
    /\ lastUptime' = 0
    /\ pc' = [pc EXCEPT ![t] = "stop_ret"]
    /\ UNCHANGED <<process, process_lock, op, stopRet, starts, result, snap, world,
                   now, calls, exited, startCalled, lastStartPid, race,
                   lastStatus, logs, emitted>>

\* ----------------------------------------------------- start_bot_internal
\* Faulty variant of AlreadyTracked: the guard is missing.
AlreadyTrackedNever(p) == FALSE

\* Faulty variant of AlreadyTracked: the guard also counts a worker that the
\* fallback probe of the last status call reported.
AlreadyTrackedOrProbed(p) == p # None \/ lastStatus.running

\* the guard of start_bot_internal: process_guard.is_some()
AlreadyTracked(p) == p # None

\* Faulty variant of StartCheck: the call does not wait for the process lock.
StartCheckNoWait(t) ==
    /\ pc[t] = "start_lock"
    /\ process_lock' = t
    /\ snap' = [snap EXCEPT ![t] = Snapshot]
    /\ starts' = [starts EXCEPT ![t] = @ + 1]
    /\ race' = RaceOnLock(t)
    /\ IF AlreadyTracked(process)
       THEN /\ ret' = [ret EXCEPT ![t] = Err("already_running")]
            /\ pc' = [pc EXCEPT ![t] = "start_ret"]
       ELSE /\ pc' = [pc EXCEPT ![t] = "start_spawn"]
            /\ ret' = ret
    /\ stoppedOk' = FALSE
    /\ UNCHANGED <<state, start_time_lock, op, child, stopRet, result, world, now,
                   calls, exited, startCalled, lastStartPid, lastUptime,
                   lastStatus, logs, emitted>>

\* let mut process_guard = state.process.lock()..;
\* if process_guard.is_some() { return Err("Bot is already running") }
StartCheck(t) ==
    /\ pc[t] = "start_lock"
    /\ process_lock = Free
    /\ process_lock' = t
    /\ snap' = [snap EXCEPT ![t] = Snapshot]
    /\ starts' = [starts EXCEPT ![t] = @ + 1]
    /\ race' = RaceOnLock(t)
    /\ IF AlreadyTracked(process)
       THEN /\ ret' = [ret EXCEPT ![t] = Err("already_running")]
            /\ pc' = [pc EXCEPT ![t] = "start_ret"]
       ELSE /\ pc' = [pc EXCEPT ![t] = "start_spawn"]
            /\ ret' = ret
    /\ stoppedOk' = FALSE
    /\ UNCHANGED <<state, start_time_lock, op, child, stopRet, result, world, now,
                   calls, exited, startCalled, lastStartPid, lastUptime,
                   lastStatus, logs, emitted>>

\* Faulty variant of StartSpawn: the start time is stored before the spawn,
\* and stays stored when the OS refuses.
StartSpawnStampsFirst(t) ==
    /\ pc[t] = "start_spawn"
    /\ start_time' = now
    /\ \E created \in BOOLEAN :
         IF created /\ nextPid \in Pids
         THEN /\ os' = [os EXCEPT ![nextPid] = "running"]
              /\ child' = [child EXCEPT ![t] = nextPid]
              /\ nextPid' = nextPid + 1
              /\ pc' = [pc EXCEPT ![t] = "start_listen_out"]
              /\ ret' = ret
         ELSE /\ ret' = [ret EXCEPT ![t] = Err("spawn_failure")]
              /\ pc' = [pc EXCEPT ![t] = "start_ret"]
              /\ UNCHANGED <<os, child, nextPid>>
    /\ UNCHANGED <<process, locks, op, stopRet, starts, result, snap, termHelpers,
                   nHelpers, hardKilled, listeners, nAttached, now, calls, exited,
                   hist, race, lastStatus, logs, emitted>>

\* Command::new("pnpm")...spawn().map_err(..)?  The OS creates the process
\* or refuses.
StartSpawn(t) ==
    /\ pc[t] = "start_spawn"
    /\ \E created \in BOOLEAN :
         IF created /\ nextPid \in Pids
         THEN /\ os' = [os EXCEPT ![nextPid] = "running"]
              /\ child' = [child EXCEPT ![t] = nextPid]
              /\ nextPid' = nextPid + 1
              /\ pc' = [pc EXCEPT ![t] = "start_listen_out"]
              /\ ret' = ret
         ELSE /\ ret' = [ret EXCEPT ![t] = Err("spawn_failure")]
              /\ pc' = [pc EXCEPT ![t] = "start_ret"]
              /\ UNCHANGED <<os, child, nextPid>>
    /\ UNCHANGED <<state, locks, op, stopRet, starts, result, snap, termHelpers,
                   nHelpers, hardKilled, listeners, nAttached, now, calls, exited,
                   hist, race, lastStatus, logs, emitted>>

\* if let Some(stdout) = child.stdout.take() { thread::spawn(..) }
\* if let Some(stderr) = child.stderr.take() { thread::spawn(..) }
StartListen(t, stream, next) ==
    /\ listeners' = listeners \cup {<<child[t], stream>>}
    /\ nAttached' = nAttached + 1
    /\ pc' = [pc EXCEPT ![t] = next]
    /\ UNCHANGED <<state, locks, op, child, ret, stopRet, starts, result, snap, os,
                   nextPid, termHelpers, nHelpers, hardKilled, now, calls, exited,
                   hist, race, lastStatus, logs, emitted>>

\* Faulty variant of StartListenStdout: no thread is spawned for stdout.
StartListenStdoutSkipped(t) ==
    /\ pc[t] = "start_listen_out"
    /\ pc' = [pc EXCEPT ![t] = "start_listen_err"]
    /\ UNCHANGED <<state, locks, op, child, ret, stopRet, starts, result, snap, world,
                   now, calls, exited, hist, race, lastStatus, logs, emitted>>

StartListenStdout(t) ==
    /\ pc[t] = "start_listen_out"
    /\ StartListen(t, "stdout", "start_listen_err")

\* Faulty variant of StartListenStderr: the second listener is bound to
\* stdout as well.
StartListenStderrOnStdout(t) ==
    /\ pc[t] = "start_listen_err"
    /\ StartListen(t, "stdout", "start_store")

StartListenStderr(t) ==
    /\ pc[t] = "start_listen_err"
    /\ StartListen(t, "stderr", "start_store")

\* *process_guard = Some(child);
StartStore(t) ==
    /\ pc[t] = "start_store"
    /\ process' = child[t]
    /\ pc' = [pc EXCEPT ![t] = "start_set_time"]
    /\ UNCHANGED <<start_time, locks, op, child, ret, stopRet, starts, result, snap,
                   world, now, calls, exited, hist, race, lastStatus, logs, emitted>>

\* Faulty variant of StoredStartTime: the start time is not stored.
StoredStartTimeMissing(clock) == NoTime

\* *start_time = Some(std::time::Instant::now())
StoredStartTime(clock) == clock

\* let mut start_time = state.start_time.lock()..;
\* *start_time = Some(Instant::now()); Ok(format!("Bot started with PID: {}", pid))
StartSetTime(t) ==
    /\ pc[t] = "start_set_time"
    /\ start_time_lock = Free
    /\ start_time_lock' = t
    /\ now' \in ClockReadings
    /\ start_time' = StoredStartTime(now')
    /\ ret' = [ret EXCEPT ![t] = Ok("started", child[t])]
    /\ child' = [child EXCEPT ![t] = None]
    /\ lastStartPid' = process
    /\ lastUptime' = 0
    /\ pc' = [pc EXCEPT ![t] = "start_ret"]
    /\ UNCHANGED <<process, process_lock, op, stopRet, starts, result, snap, world,
                   calls, exited, startCalled, stoppedOk, race, lastStatus, logs,
                   emitted>>
\* ------------------------------------------------------- entry points
\* Faulty variant of RestartResult: the error of the stop phase is propagated.
RestartResultStopError(stopResult, startResult) ==
    IF IsErr(stopResult) THEN stopResult ELSE startResult

\* restart_bot: `let _ = stop_bot_internal(&state);` ... the tail call
\* start_bot_internal(..) is the value of the command
RestartResult(stopResult, startResult) == startResult

\* The handlers of the tray menu and of the native menu bar.
TrayOps == {"tray_start", "tray_stop", "tray_restart"}

\* app.emit("bot-status", msg) / app.emit("bot-error", e)
Event(name, payload) == [event |-> name, payload |-> payload]

\* Faulty variant of Emitted: the Err arm of the handlers emits nothing.
EmittedSuccessOnly(o, phase, r) ==
    IF o \in TrayOps \cup {"toggle"} /\ ~IsErr(r)
    THEN <<Event("bot-status", r.kind)>>
    ELSE <<>>

\* The events an entry point emits once the lifecycle function it called has
\* returned r.  Tray and menu handlers: `match .. { Ok(msg) => emit("bot-status",
\* msg), Err(e) => emit("bot-error", e) }`.  Shortcut handler: after its stop,
\* whose result it drops, emit("bot-status", "Bot stopped via shortcut"); after
\* its start, the same match.  The commands return r to the caller, the
\* auto-start thread prints it, the exit handler drops it: no event.
Emitted(o, phase, r) ==
    IF o \in TrayOps \/ (o = "toggle" /\ phase = "start")
    THEN IF IsErr(r) THEN <<Event("bot-error", r.kind)>>
         ELSE <<Event("bot-status", r.kind)>>
    ELSE IF o = "toggle" THEN <<Event("bot-status", "stopped")>>
    ELSE <<>>

\* stop_bot_internal returns to its caller; the guards are dropped.  The
\* RunEvent::Exit handler drops the result and returns to the event loop.
StopReturn(t) ==
    /\ pc[t] = "stop_ret"
    /\ process_lock' = Free
    /\ start_time_lock' = IF start_time_lock = t THEN Free ELSE start_time_lock
    /\ snap' = [snap EXCEPT ![t] = NoSnap]
    /\ IF op[t] \in RestartOps
       THEN /\ stopRet' = [stopRet EXCEPT ![t] = ret[t]]
            /\ pc' = [pc EXCEPT ![t] = "restart_sleep"]
            /\ UNCHANGED <<result, exited, op, emitted>>
       ELSE /\ result' = [result EXCEPT ![t] = ret[t]]
            /\ emitted' = [emitted EXCEPT ![t] = Emitted(op[t], "stop", ret[t])]
            /\ pc' = [pc EXCEPT ![t] = IF op[t] = "exit" THEN "exiting" ELSE "idle"]
            /\ op' = [op EXCEPT ![t] = "none"]
            /\ UNCHANGED <<stopRet, exited>>
    /\ ret' = [ret EXCEPT ![t] = NoRes]
    /\ UNCHANGED <<state, child, starts, world, now, calls, hist, race,
                   lastStatus, logs>>

\* The RunEvent::Exit handler has returned: the event loop ends the
\* application, and every thread of it.  Until then the other threads run on.
ProcessExit(t) ==
    /\ pc[t] = "exiting"
    /\ pc' = [u \in Threads |-> "gone"]
    /\ exited' = TRUE
    /\ UNCHANGED <<state, locks, op, child, ret, stopRet, starts, result, snap, world,
                   now, calls, hist, race, lastStatus, logs, emitted>>

\* thread::sleep(Duration::from_millis(300)); then start_bot_internal(..)
RestartSleep(t) ==
    /\ pc[t] = "restart_sleep"
    /\ pc' = [pc EXCEPT ![t] = "start_lock"]
    /\ race' = RaceOnArrive(t, race)
    /\ UNCHANGED <<state, locks, op, child, ret, stopRet, starts, result, snap, world,
                   now, calls, exited, hist, lastStatus, logs, emitted>>

\* start_bot_internal returns to its caller; the guards are dropped.  The
\* auto-start thread ends after its one call.
StartReturn(t) ==
    /\ pc[t] = "start_ret"
    /\ process_lock' = Free
    /\ start_time_lock' = IF start_time_lock = t THEN Free ELSE start_time_lock
    /\ snap' = [snap EXCEPT ![t] = NoSnap]
    /\ result' = [result EXCEPT ![t] =
                    IF op[t] \in RestartOps THEN RestartResult(stopRet[t], ret[t])
                    ELSE ret[t]]
    /\ emitted' = [emitted EXCEPT ![t] = Emitted(op[t], "start", result'[t])]
    /\ ret' = [ret EXCEPT ![t] = NoRes]
    /\ stopRet' = [stopRet EXCEPT ![t] = NoRes]
    /\ starts' = [starts EXCEPT ![t] = 0]
    /\ op' = [op EXCEPT ![t] = "none"]
    /\ startCalled' = TRUE
    /\ pc' = [pc EXCEPT ![t] = IF t = "auto" THEN "gone" ELSE "idle"]
    /\ UNCHANGED <<state, child, world, now, calls, exited, lastStartPid, stoppedOk,
                   lastUptime, race, lastStatus, logs>>

\* Faulty variant of EntryPc: the exit handler returns without stopping.
EntryPcExitWithoutStop(o) ==
    IF o \in StartOps THEN "start_lock"
    ELSE IF o = "exit" THEN "exiting"
    ELSE IF o \in StopOps \cup RestartOps THEN "stop_lock"
    ELSE IF o \in PeekOps THEN "peek"
    ELSE IF o = "status" THEN "status_lock"
    ELSE "health_lock"

\* The first position of an entry point: the lifecycle function it calls
\* first, or its look at the state.
EntryPc(o) ==
    IF o \in StartOps THEN "start_lock"
    ELSE IF o \in StopOps \cup RestartOps THEN "stop_lock"
    ELSE IF o \in PeekOps THEN "peek"
    ELSE IF o = "status" THEN "status_lock"
    ELSE "health_lock"

\* A command is invoked, a tray item or the shortcut is used, the auto-start
\* thread runs, or the application exits.
Begin(t, o) ==
    /\ pc[t] = "idle"
    /\ o \in OpsOf(t)
    /\ t = "auto" \/ calls < MaxCalls
    /\ calls' = IF t = "auto" THEN calls ELSE calls + 1
    /\ op' = [op EXCEPT ![t] = o]
    /\ result' = [result EXCEPT ![t] = NoRes]
    /\ pc' = [pc EXCEPT ![t] = EntryPc(o)]
    /\ race' = LET r == IF t \in race.who THEN NoRace ELSE race IN
               IF EntryPc(o) = "start_lock" THEN RaceOnArrive(t, r) ELSE r
    /\ emitted' = [emitted EXCEPT ![t] = <<>>]
    /\ UNCHANGED <<state, locks, child, ret, stopRet, starts, snap, world, now, exited,
                   hist, lastStatus, logs>>

\* match state.process.lock() { Ok(process) => process.is_some(), .. } of the
\* shortcut handler and of the auto-start thread; the guard is dropped at once
Peek(t) ==
    /\ pc[t] = "peek"
    /\ process_lock = Free
    /\ IF process # None
       THEN IF op[t] = "toggle"
            THEN /\ pc' = [pc EXCEPT ![t] = "stop_lock"]
                 /\ UNCHANGED <<result, race>>
            ELSE /\ pc' = [pc EXCEPT ![t] = "gone"]
                 /\ result' = [result EXCEPT ![t] = Err("skipped")]
                 /\ race' = race
       ELSE /\ pc' = [pc EXCEPT ![t] = "start_lock"]
            /\ race' = RaceOnArrive(t, race)
            /\ result' = result
    /\ UNCHANGED <<state, locks, op, child, ret, stopRet, starts, snap, world, now,
                   calls, exited, hist, lastStatus, logs, emitted>>
\* ---------------------------------------------------------- get_bot_status
\* state.process.lock()
StatusLock(t) ==
    /\ pc[t] = "status_lock"
    /\ process_lock = Free
    /\ process_lock' = t
    /\ pc' = [pc EXCEPT ![t] = "status_read"]
    /\ UNCHANGED <<state, start_time_lock, op, child, ret, stopRet, starts, result,
                   snap, world, now, calls, exited, hist, race, lastStatus, logs,
                   emitted>>

\* (is_running, uptime_seconds, pid) as get_bot_status and get_bot_health
\* compute them from the two guarded fields
ReadState(k, clock) ==
    [NoRes EXCEPT !.kind = k,
                  !.running = (process # None),
                  !.uptime = UptimeSeconds(start_time, clock),
                  !.pid = process,
                  !.sawStart = lastStartPid,
                  !.afterStop = stoppedOk,
                  !.prevUp = lastUptime]

\* The state and the clock a status call read, with the BotStatus it returns;
\* the probe is pending while no worker was tracked and no response has come.
StatusSeen(r, clock) ==
    [process |-> process, start_time |-> start_time, clock |-> clock,
     running |-> r.running, uptime |-> r.uptime, pid |-> r.pid,
     probe |-> IF process # None THEN "none" ELSE "pending"]

\* state.start_time.lock() and the rest of the block of lines 114-127; both
\* guards are dropped at its end.  With a tracked worker the command returns
\* without probing.
StatusRead(t) ==
    /\ pc[t] = "status_read"
    /\ start_time_lock = Free
    /\ process_lock' = Free
    /\ start_time_lock' = Free
    /\ now' \in ClockReadings
    /\ lastUptime' = IF process # None THEN UptimeSeconds(start_time, now') ELSE lastUptime
    /\ lastStatus' = StatusSeen(ReadState("status", now'), now')
    /\ IF process # None
       THEN /\ result' = [result EXCEPT ![t] = ReadState("status", now')]
            /\ pc' = [pc EXCEPT ![t] = "idle"]
            /\ op' = [op EXCEPT ![t] = "none"]
            /\ ret' = ret
       ELSE /\ ret' = [ret EXCEPT ![t] = ReadState("status", now')]
            /\ pc' = [pc EXCEPT ![t] = "status_probe"]
            /\ UNCHANGED <<result, op>>
    /\ UNCHANGED <<state, child, stopRet, starts, snap, world, calls, exited,
                   startCalled, lastStartPid, stoppedOk, race, logs, emitted>>

\* Faulty variant of ProbeRunning: any HTTP response counts as running.
ProbeRunningAnyResponse(outcome) == outcome # "net_error"

\* Ok(response) => is_running = response.status().is_success(); Err(e) => {}
ProbeRunning(outcome) == outcome = "success"

\* client.get("http://127.0.0.1:3002/metrics").send().await and the match on it
StatusProbe(t) ==
    /\ pc[t] = "status_probe"
    /\ \E outcome \in ProbeOutcomes :
         /\ result' = [result EXCEPT ![t] =
                         [ret[t] EXCEPT !.running = ProbeRunning(outcome),
                                        !.probe = outcome]]
         /\ lastStatus' = [lastStatus EXCEPT !.running = ProbeRunning(outcome),
                                             !.probe = outcome]
    /\ ret' = [ret EXCEPT ![t] = NoRes]
    /\ pc' = [pc EXCEPT ![t] = "idle"]
    /\ op' = [op EXCEPT ![t] = "none"]
    /\ UNCHANGED <<state, locks, child, stopRet, starts, snap, world, now, calls,
                   exited, hist, race, logs, emitted>>

\* ---------------------------------------------------------- get_bot_health
\* Faulty variant of HealthLock: the state is read without the process lock.
HealthLockNotTaken(t) ==
    /\ pc[t] = "health_lock"
    /\ pc' = [pc EXCEPT ![t] = "health_read"]
    /\ UNCHANGED <<state, locks, op, child, ret, stopRet, starts, result,
                   snap, world, now, calls, exited, hist, race, lastStatus, logs,
                   emitted>>

\* Faulty variant of HealthLock: start_time is locked first.
HealthLockStartTimeFirst(t) ==
    /\ pc[t] = "health_lock"
    /\ start_time_lock = Free
    /\ start_time_lock' = t
    /\ pc' = [pc EXCEPT ![t] = "health_read"]
    /\ UNCHANGED <<state, process_lock, op, child, ret, stopRet, starts, result,
                   snap, world, now, calls, exited, hist, race, lastStatus, logs,
                   emitted>>

\* state.process.lock()
HealthLock(t) ==
    /\ pc[t] = "health_lock"
    /\ process_lock = Free
    /\ process_lock' = t
    /\ pc' = [pc EXCEPT ![t] = "health_read"]
    /\ UNCHANGED <<state, start_time_lock, op, child, ret, stopRet, starts, result,
                   snap, world, now, calls, exited, hist, race, lastStatus, logs,
                   emitted>>

\* Faulty variant of HealthFields: uptime_seconds is left at 0.
HealthFieldsNoUptime(clock) ==
    [NoRes EXCEPT !.kind = "health",
                  !.running = (process # None),
                  !.pid = process,
                  !.sawStart = lastStartPid,
                  !.afterStop = stoppedOk,
                  !.prevUp = lastUptime]

\* is_running, pid and uptime_seconds as get_bot_health computes them:
\* process.is_some(), process.as_ref().map(|p| p.id()), and
\* start.elapsed().as_secs() or 0
HealthFields(clock) ==
    [NoRes EXCEPT !.kind = "health",
                  !.running = (process # None),
                  !.pid = process,
                  !.uptime = IF start_time # NoTime
                             THEN UptimeSeconds(start_time, clock) ELSE 0,
                  !.sawStart = lastStartPid,
                  !.afterStop = stoppedOk,
                  !.prevUp = lastUptime]

\* state.start_time.lock(), then is_running, pid and uptime_seconds
HealthRead(t) ==
    /\ pc[t] = "health_read"
    /\ start_time_lock = Free
    /\ start_time_lock' = t
    /\ now' \in ClockReadings
    /\ ret' = [ret EXCEPT ![t] = HealthFields(now')]
    /\ lastUptime' = IF process # None THEN UptimeSeconds(start_time, now') ELSE lastUptime
    /\ pc' = [pc EXCEPT ![t] = "health_memory"]
    /\ UNCHANGED <<state, process_lock, op, child, stopRet, starts, result, snap, world,
                   calls, exited, startCalled, lastStartPid, stoppedOk, race,
                   lastStatus, logs, emitted>>

\* The OS queries of a health call that failed so far: a query is made only
\* for a known PID, and fails when the command cannot be run or its output
\* cannot be parsed (`.ok()?`, `map_or(false, ..)`).
QueryFailed(f, q, p, succeeded) == IF p # None /\ ~succeeded THEN f \cup {q} ELSE f

\* Faulty variant of MemoryMb: the outcome of the query is not looked at.
MemoryMbUnchecked(p, queried) ==
    IF p # None /\ os[p] \in {"running", "exited"} THEN "some" ELSE "none"

\* `ps -o rss= -p pid`: a number for a PID the OS knows, when ps could be
\* run and its output parsed
MemoryMb(p, queried) ==
    IF p # None /\ queried /\ os[p] \in {"running", "exited"} THEN "some" ELSE "none"

\* let memory_mb = pid.and_then(|p| { .. })
HealthMemory(t) ==
    /\ pc[t] = "health_memory"
    /\ \E queried \in BOOLEAN :
         ret' = [ret EXCEPT ![t].mem = MemoryMb(ret[t].pid, queried),
                            ![t].failed = QueryFailed(@, "memory", ret[t].pid, queried)]
    /\ pc' = [pc EXCEPT ![t] = "health_responsive"]
    /\ UNCHANGED <<state, locks, op, child, stopRet, starts, result, snap, world, now,
                   calls, exited, hist, race, lastStatus, logs, emitted>>

\* Faulty variant of ProbeSignal: the probe sends SIGKILL instead of signal 0.
ProbeSignalKills(table, p) ==
    IF p # None /\ table[p] = "running" THEN [table EXCEPT ![p] = "exited"] ELSE table

\* what `kill -0 pid` does to the process table: signal 0 is delivered to no
\* process
ProbeSignal(table, p) == table

\* `kill -0 pid` exits with success for every PID in the process table, a
\* zombie included, when the command could be run
IsResponsive(p, ran) ==
    p # None /\ ran /\ os[p] \in {"running", "exited"}

\* let is_responsive = pid.map_or(false, |p| { .. })
HealthResponsive(t) ==
    /\ pc[t] = "health_responsive"
    /\ \E ran \in BOOLEAN :
         /\ ret' = [ret EXCEPT ![t].responsive = IsResponsive(ret[t].pid, ran),
                               ![t].failed = QueryFailed(@, "probe", ret[t].pid, ran)]
         /\ os' = IF ran THEN ProbeSignal(os, ret[t].pid) ELSE os
    /\ pc' = [pc EXCEPT ![t] = "health_ret"]
    /\ UNCHANGED <<state, locks, op, child, stopRet, starts, result, snap, nextPid,
                   termHelpers, nHelpers, hardKilled, listeners, nAttached, now,
                   calls, exited, hist, race, lastStatus, logs, emitted>>

\* Ok(BotHealth { .. }); the guards are dropped
HealthReturn(t) ==
    /\ pc[t] = "health_ret"
    /\ process_lock' = Free
    /\ start_time_lock' = Free
    /\ result' = [result EXCEPT ![t] = ret[t]]
    /\ ret' = [ret EXCEPT ![t] = NoRes]
    /\ pc' = [pc EXCEPT ![t] = "idle"]
    /\ op' = [op EXCEPT ![t] = "none"]
    /\ UNCHANGED <<state, child, stopRet, starts, snap, world, now, calls, exited,
                   hist, race, lastStatus, logs, emitted>>

\* ------------------------------------------------------------ environment
\* Faulty variant of WorkerExit: the exit of the tracked worker clears the
\* tracked record.
WorkerExitUntracks(p) ==
    /\ os[p] = "running"
    /\ os' = [os EXCEPT ![p] = "exited"]
    /\ process' = IF process = p THEN None ELSE process
    /\ start_time' = IF process = p THEN NoTime ELSE start_time
    /\ UNCHANGED <<locks, pc, op, child, ret, stopRet, starts, result, snap,
                   nextPid, termHelpers, nHelpers, hardKilled, listeners, nAttached,
                   now, calls, exited, hist, race, lastStatus, logs, emitted>>

\* The worker exits on its own: it stays in the process table until reaped.
WorkerExit(p) ==
    /\ os[p] = "running"
    /\ os' = [os EXCEPT ![p] = "exited"]
    /\ UNCHANGED <<state, locks, pc, op, child, ret, stopRet, starts, result, snap,
                   nextPid, termHelpers, nHelpers, hardKilled, listeners, nAttached,
                   now, calls, exited, hist, race, lastStatus, logs, emitted>>

\* A `kill -TERM pid` helper runs: a running worker honours the signal or
\* ignores it; a PID that is no longer running is unaffected.
TermDeliver(p) ==
    /\ p \in termHelpers
    /\ termHelpers' = termHelpers \ {p}
    /\ \E honoured \in BOOLEAN :
         os' = IF honoured /\ os[p] = "running" THEN [os EXCEPT ![p] = "exited"] ELSE os
    /\ UNCHANGED <<state, locks, pc, op, child, ret, stopRet, starts, result, snap,
                   nextPid, nHelpers, hardKilled, listeners, nAttached, now, calls,
                   exited, hist, race, lastStatus, logs, emitted>>

\* Faulty variant of ListenerEof: end-of-stream is seen only while the exited
\* worker is still in the process table.
ListenerEofBeforeReap(l) ==
    /\ l \in listeners
    /\ os[l[1]] = "exited"
    /\ pipe[l] = <<>>
    /\ listeners' = listeners \ {l}
    /\ UNCHANGED <<state, locks, pc, op, child, ret, stopRet, starts, result, snap, os,
                   nextPid, termHelpers, nHelpers, hardKilled, nAttached, now, calls,
                   exited, hist, race, lastStatus, logs, emitted>>

\* for line in reader.lines() ends: the pipe of an exited worker reached
\* end-of-stream and the listener thread finishes
ListenerEof(l) ==
    /\ l \in listeners
    /\ os[l[1]] # "running"
    /\ pipe[l] = <<>>
    /\ listeners' = listeners \ {l}
    /\ UNCHANGED <<state, locks, pc, op, child, ret, stopRet, starts, result, snap, os,
                   nextPid, termHelpers, nHelpers, hardKilled, nAttached, now, calls,
                   exited, hist, race, lastStatus, logs, emitted>>

\* The worker writes one more line to a pipe; the bytes of the line are
\* valid UTF-8 or not.  The line gets the next number of that pipe.
WorkerWrite(l, decodable) ==
    /\ os[l[1]] = "running"
    /\ Len(written[l]) < MaxLines
    /\ LET line == [n |-> Len(written[l]) + 1, ok |-> decodable] IN
         /\ pipe' = [pipe EXCEPT ![l] = Append(@, line)]
         /\ written' = [written EXCEPT ![l] = Append(@, line)]
    /\ UNCHANGED <<state, locks, pc, op, child, ret, stopRet, starts, result, snap,
                   world, now, calls, exited, hist, race, lastStatus, sink,
                   emitted>>

\* Faulty variant of Level: the stderr listener logs with info! too.
LevelAlwaysInfo(stream) == "Info"

\* info!(target: "bot", ..) in the stdout listener, error!(target: "bot", ..)
\* in the stderr listener
Level(stream) == IF stream = "stdout" THEN "Info" ELSE "Error"

\* if let Ok(line) = line { info!/error!(target: "bot", "{}", line) }: a line
\* that reader.lines() could not decode is dropped
Forward(events, l, line) ==
    IF line.ok
    THEN Append(events, [pid |-> l[1], stream |-> l[2], level |-> Level(l[2]),
                         n |-> line.n])
    ELSE events

\* Faulty variant of ListenerRead: the listener waits for the process lock
\* before it forwards a line.
ListenerReadLocks(l) ==
    /\ l \in listeners
    /\ pipe[l] # <<>>
    /\ process_lock = Free
    /\ sink' = Forward(sink, l, Head(pipe[l]))
    /\ pipe' = [pipe EXCEPT ![l] = Tail(@)]
    /\ UNCHANGED <<state, locks, pc, op, child, ret, stopRet, starts, result, snap,
                   world, now, calls, exited, hist, race, lastStatus, written,
                   emitted>>

\* One iteration of `for line in reader.lines()` in a listener thread
ListenerRead(l) ==
    /\ l \in listeners
    /\ pipe[l] # <<>>
    /\ sink' = Forward(sink, l, Head(pipe[l]))
    /\ pipe' = [pipe EXCEPT ![l] = Tail(@)]
    /\ UNCHANGED <<state, locks, pc, op, child, ret, stopRet, starts, result, snap,
                   world, now, calls, exited, hist, race, lastStatus, written,
                   emitted>>

\* ------------------------------------------------------------------ spec
Step(t) ==
    \/ \E o \in OpsOf(t) : Begin(t, o)
    \/ Peek(t)
    \/ StopTake(t)
    \/ StopTerm(t)
    \/ StopKill(t)
    \/ StopWait(t)
    \/ StopClear(t)
    \/ StopReturn(t)
    \/ ProcessExit(t)
    \/ RestartSleep(t)
    \/ StartCheck(t)
    \/ StartSpawn(t)
    \/ StartListenStdout(t)
    \/ StartListenStderr(t)
    \/ StartStore(t)
    \/ StartSetTime(t)
    \/ StartReturn(t)
    \/ StatusLock(t)
    \/ StatusRead(t)
    \/ StatusProbe(t)
    \/ HealthLock(t)
    \/ HealthRead(t)
    \/ HealthMemory(t)
    \/ HealthResponsive(t)
    \/ HealthReturn(t)

Environment ==
    \/ \E p \in Pids : WorkerExit(p)
    \/ \E p \in Pids : TermDeliver(p)

Next ==
    \/ \E t \in Threads : Step(t)
    \/ Environment

\* The lifecycle: every thread of control that touches BotState, and the
\* worker processes.  A listener thread only ever leaves `listeners`, which no
\* other action reads, so the steps of listeners are left to NextListeners.
Spec == Init /\ [][Next]_vars

NextListeners ==
    \/ Next
    \/ \E l \in listeners : ListenerEof(l)

\* The lifecycle together with the listener threads.
SpecListeners == Init /\ [][NextListeners]_vars

\* The output path of a worker that is never stopped: the auto-start thread
\* starts it, it writes to its pipes and exits on its own, the listener
\* threads read the pipes.
NextLog ==
    \/ \E t \in {"auto"} :
          \/ \E o \in AutoOps : Begin(t, o)
          \/ Peek(t)
          \/ StartCheck(t)
          \/ StartSpawn(t)
          \/ StartListenStdout(t)
          \/ StartListenStderr(t)
          \/ StartStore(t)
          \/ StartSetTime(t)
          \/ StartReturn(t)
    \/ \E p \in Pids : WorkerExit(p)
    \/ \E l \in Pipes : \E decodable \in BOOLEAN : WorkerWrite(l, decodable)
    \/ \E l \in Pipes : ListenerRead(l)
    \/ \E l \in Pipes : ListenerEof(l)

SpecLog == Init /\ [][NextLog]_vars

\* The operating system schedules the listener threads: while some listener
\* can take a step, one of them does.
ListenersRun == WF_vars(\E l \in Pipes : ListenerRead(l) \/ ListenerEof(l))

SpecLogFair == SpecLog /\ ListenersRun

\* The steps of stop_bot_internal and start_bot_internal and of the look at
\* the state that the shortcut handler and the auto-start thread take first.
StopStartStep(t) ==
    \/ Peek(t)
    \/ StopTake(t)
    \/ StopTerm(t)
    \/ StopKill(t)
    \/ StopWait(t)
    \/ StopClear(t)
    \/ StopReturn(t)
    \/ StartCheck(t)
    \/ StartSpawn(t)
    \/ StartListenStdout(t)
    \/ StartListenStderr(t)
    \/ StartStore(t)
    \/ StartSetTime(t)
    \/ StartReturn(t)

\* The shortcut handler and the auto-start thread, the worker processes and
\* the listener threads: workers are started, stopped and started again
\* while the listeners of the earlier ones run on.
NextToggle ==
    \/ Begin("main", "toggle")
    \/ Begin("auto", "autostart")
    \/ \E t \in {"main", "auto"} : StopStartStep(t)
    \/ \E p \in Pids : WorkerExit(p)
    \/ \E p \in Pids : TermDeliver(p)
    \/ \E l \in Pipes : ListenerEof(l)

SpecToggle == Init /\ [][NextToggle]_vars

\* The operating system schedules a listener thread that is at end-of-stream.
ListenersEnd == WF_vars(\E l \in Pipes : ListenerEof(l))

SpecToggleFair == SpecToggle /\ ListenersEnd

\* The shortcut handler, the restart item of the tray and of the menu, and
\* the auto-start thread, with the worker processes and the listener threads.
NextRestart ==
    \/ \E o \in {"toggle", "tray_restart"} : Begin("main", o)
    \/ Begin("auto", "autostart")
    \/ \E t \in {"main", "auto"} : StopStartStep(t)
    \/ RestartSleep("main")
    \/ \E p \in Pids : WorkerExit(p)
    \/ \E p \in Pids : TermDeliver(p)
    \/ \E l \in Pipes : ListenerEof(l)

SpecRestart == Init /\ [][NextRestart]_vars

\* The steps of a command or of a tray or menu handler once it has begun.
CallStep(t) ==
    \/ StopTake(t)
    \/ StopTerm(t)
    \/ StopKill(t)
    \/ StopWait(t)
    \/ StopClear(t)
    \/ StopReturn(t)
    \/ RestartSleep(t)
    \/ StartCheck(t)
    \/ StartSpawn(t)
    \/ StartListenStdout(t)
    \/ StartListenStderr(t)
    \/ StartStore(t)
    \/ StartSetTime(t)
    \/ StartReturn(t)
    \/ StatusLock(t)
    \/ StatusRead(t)
    \/ StatusProbe(t)
    \/ HealthLock(t)
    \/ HealthRead(t)
    \/ HealthMemory(t)
    \/ HealthResponsive(t)
    \/ HealthReturn(t)

\* The five commands on the command thread and start, stop and restart from
\* the tray or the menu on the event-loop thread, with the worker processes.
NextCalls ==
    \/ \E o \in CommandOps : Begin("cmd", o)
    \/ \E o \in TrayOps : Begin("main", o)
    \/ \E t \in {"cmd", "main"} : CallStep(t)
    \/ Environment

SpecCalls == Init /\ [][NextCalls]_vars

\* The operating system schedules every thread that can take a step, and the
\* OS calls a thread makes return.
CallsRun == \A t \in {"cmd", "main"} : WF_vars(CallStep(t))

SpecCallsFair == SpecCalls /\ CallsRun

TypeOK ==
    /\ process \in Pids \cup {None}
    /\ start_time \in (0..MaxTime) \cup {NoTime}
    /\ process_lock \in Threads \cup {Free}
    /\ start_time_lock \in Threads \cup {Free}
    /\ nextPid \in 1..(MaxCalls + 2)
    /\ now \in 0..MaxTime
    /\ calls \in 0..MaxCalls
    /\ listeners \subseteq (Pids \X Streams)
    /\ termHelpers \subseteq Pids
    /\ hardKilled \subseteq Pids
    /\ \A l \in Pipes : Len(written[l]) <= MaxLines /\ Len(pipe[l]) <= MaxLines
    /\ Len(sink) <= Cardinality(Pipes) * MaxLines

\* ================================================================ claims
\* A lifecycle call is about to return: its value is computed and it still
\* holds the process lock it took when snap[t] was recorded.
StartReturning(t) == pc[t] = "start_ret"
StopReturning(t) == pc[t] = "stop_ret"

\* The call about to return has spawned nothing, attached no listener and
\* left the tracked worker and started_at as it found them.
NoStartEffect(t) ==
    /\ process = snap[t].process
    /\ start_time = snap[t].start_time
    /\ nextPid = snap[t].spawned
    /\ nAttached = snap[t].attached

\* C1: in every reachable state at most one worker process spawned by the
\* supervisor is alive (spawned and not yet reaped), whatever entry points
\* issued the starts, stops and restarts and however they interleave.
C1_AtMostOneLiveWorker == Cardinality(Alive) <= 1

\* C1 witness: a second worker is alive after the first one was reaped.
C1_Witness ==
    \E p, q \in Pids : p # q /\ os[p] = "reaped" /\ os[q] = "running" /\ process = q

\* C2 as stated: every start call that follows another start call with no
\* stop in between returns AlreadyRunning and changes nothing.
C2_Original ==
    \A t \in Threads :
        (StartReturning(t) /\ snap[t].startCalled)
            => (ret[t].kind = "already_running" /\ NoStartEffect(t))

\* C2 amended: in a run of start calls with no stop in between, once a call
\* has succeeded every later call returns AlreadyRunning, spawns no process,
\* attaches no listener and leaves the tracked PID and started_at unchanged.
C2_StartAfterSuccessRefused ==
    \A t \in Threads :
        (StartReturning(t) /\ snap[t].lastStart # None)
            => /\ ret[t].kind = "already_running"
               /\ NoStartEffect(t)
               /\ process = snap[t].lastStart

\* C2 witness: a start call returns AlreadyRunning after an earlier success.
C2_Witness ==
    \E t \in Threads :
        /\ StartReturning(t)
        /\ snap[t].lastStart # None
        /\ ret[t].kind = "already_running"

\* The two racing start calls have both returned.
RaceDone ==
    /\ race.who # {}
    /\ \A t \in race.who : pc[t] \in {"idle", "gone"} /\ result[t].kind # "none"

RaceKinds(k) == {t \in race.who : result[t].kind = k}

\* C3 as stated: of two start calls racing against an idle supervisor exactly
\* one returns a PID-bearing success, the other AlreadyRunning, and exactly
\* one worker has been spawned.
C3_Original ==
    RaceDone =>
        /\ Cardinality(RaceKinds("started")) = 1
        /\ Cardinality(RaceKinds("already_running")) = 1
        /\ nextPid - 1 = race.base + 1

\* C3 amended: of two start calls racing against an idle supervisor at most
\* one returns a PID-bearing success and as many workers are spawned as calls
\* succeed; a call returns AlreadyRunning only if the other succeeded; when
\* the OS refuses no spawn exactly one succeeds and the other returns
\* AlreadyRunning.
C3_RaceOutcome ==
    RaceDone =>
        /\ Cardinality(RaceKinds("started")) <= 1
        /\ nextPid - 1 = race.base + Cardinality(RaceKinds("started"))
        /\ \A t \in race.who :
               result[t].kind \in {"started", "already_running", "spawn_failure"}
        /\ RaceKinds("already_running") # {} => RaceKinds("started") # {}
        /\ RaceKinds("spawn_failure") = {} =>
               /\ Cardinality(RaceKinds("started")) = 1
               /\ Cardinality(RaceKinds("already_running")) = 1

\* C3 witness: both racing calls have returned, one with a PID and the other
\* with AlreadyRunning.
C3_Witness ==
    /\ RaceDone
    /\ RaceKinds("started") # {}
    /\ RaceKinds("already_running") # {}

\* C4: a stop that finds no tracked worker returns NotRunning and changes
\* nothing: no helper spawned, no kill issued, nothing reaped, nothing spawned,
\* worker and started_at as before.
C4_StopNotRunningNoEffect ==
    \A t \in Threads :
        (StopReturning(t) /\ snap[t].process = None)
            => /\ ret[t].kind = "not_running"
               /\ process = None
               /\ start_time = snap[t].start_time
               /\ nHelpers = snap[t].helpers
               /\ hardKilled = snap[t].killed
               /\ Reaped = snap[t].reaped
               /\ nextPid = snap[t].spawned
               /\ start_time_lock # t

\* C4 witness: a stop returns NotRunning after an earlier worker was stopped.
C4_Witness ==
    \E t \in Threads :
        /\ StopReturning(t)
        /\ snap[t].process = None
        /\ ret[t].kind = "not_running"
        /\ Reaped # {}

\* A status or health call has returned what it read from BotState.
Reported(t, k) == pc[t] = "idle" /\ result[t].kind = k

\* C5 as stated: a status call that reads the state after a stop returned
\* success, with no start in between, returns is_running = false,
\* uptime_seconds = 0 and pid = None.
C5_Original ==
    \A t \in Threads :
        (Reported(t, "status") /\ result[t].afterStop)
            => /\ ~result[t].running
               /\ result[t].uptime = 0
               /\ result[t].pid = None

\* C5 amended: such a status call returns uptime_seconds = 0 and pid = None,
\* and is_running = true exactly when the fallback probe it issues gets a
\* successful HTTP status.
C5_StatusAfterStop ==
    \A t \in Threads :
        (Reported(t, "status") /\ result[t].afterStop)
            => /\ result[t].uptime = 0
               /\ result[t].pid = None
               /\ result[t].running <=> (result[t].probe = "success")

\* C5 witness: a status call after a successful stop, after the clock has
\* advanced, reports not running.
C5_Witness ==
    \E t \in Threads :
        /\ Reported(t, "status")
        /\ result[t].afterStop
        /\ ~result[t].running
        /\ now > 0

\* C6: when stop is about to return success, the worker it took from the state
\* has had the hard kill issued against it and has been reaped, no worker is
\* tracked and none is left alive.
C6_StopKillsAndReaps ==
    \A t \in Threads :
        (StopReturning(t) /\ ret[t].kind = "stopped")
            => /\ snap[t].process # None
               /\ ret[t].pid = snap[t].process
               /\ ret[t].pid \in hardKilled
               /\ os[ret[t].pid] = "reaped"
               /\ process = None
               /\ Alive = {}

\* C6 witness: stop returns success while the graceful signal has not been
\* delivered to the worker it took.
C6_Witness ==
    \E t \in Threads :
        /\ StopReturning(t)
        /\ ret[t].kind = "stopped"
        /\ ret[t].pid \in termHelpers

\* C7: from a successful start returning PID p until the next stop the state
\* tracks a worker with PID p with started_at set, and every status call that
\* reads the state in between returns is_running = true and pid = p.
C7_TrackedAfterStart ==
    /\ lastStartPid # None => (process = lastStartPid /\ start_time # NoTime)
    /\ \A t \in Threads :
           (Reported(t, "status") /\ result[t].sawStart # None)
               => (result[t].running /\ result[t].pid = result[t].sawStart)

\* C7 witness: a status call has reported the PID a start returned.
C7_Witness ==
    \E t \in Threads :
        /\ Reported(t, "status")
        /\ result[t].sawStart # None
        /\ result[t].pid = result[t].sawStart
        /\ \E u \in Threads : result[u].kind = "started" /\ result[u].pid = result[t].pid

\* What every return of start_bot_internal satisfies: AlreadyRunning exactly
\* when a worker was tracked; on success a new process is tracked with
\* started_at set and two listeners attached; otherwise nothing changed.
StartContract(t) ==
    /\ ret[t].kind \in {"started", "already_running", "spawn_failure"}
    /\ ret[t].kind = "already_running" <=> snap[t].process # None
    /\ ret[t].kind = "started" =>
           /\ process = ret[t].pid
           /\ ret[t].pid = snap[t].spawned
           /\ nextPid = snap[t].spawned + 1
           /\ nAttached = snap[t].attached + 2
           /\ start_time # NoTime
    /\ ret[t].kind # "started" => NoStartEffect(t)

\* C8: restart makes one start attempt after its stop phase, whatever the
\* stop phase returned, and returns exactly what that attempt returned; that
\* attempt meets the contract of every start, so on a stopped supervisor a
\* restart succeeds exactly when a fresh start would and leaves the same state.
C8_RestartReturnsStart ==
    /\ [][\A t \in Threads :
              (pc[t] = "start_ret" /\ op[t] \in RestartOps /\ pc'[t] = "idle")
                  => (result'[t] = ret[t] /\ starts[t] = 1)]_vars
    /\ [](\A t \in Threads : StartReturning(t) => StartContract(t))
    /\ [](\A t \in Threads :
              (op[t] \in RestartOps /\ pc[t] \in {"restart_sleep", "start_lock"})
                  => starts[t] = 0)

\* C8 witness: a restart whose stop phase returned NotRunning is about to
\* return the PID of the worker its start phase spawned.
C8_Witness ==
    \E t \in Threads :
        /\ StartReturning(t)
        /\ op[t] \in RestartOps
        /\ stopRet[t].kind = "not_running"
        /\ ret[t].kind = "started"

\* C9: between a successful start and the next stop no status or health call
\* reports a smaller uptime than the call before it; a call that reads the
\* state after that stop has returned reports uptime_seconds = 0.
C9_UptimeMonotone ==
    \A t \in Threads : \A k \in {"status", "health"} :
        Reported(t, k) =>
            /\ result[t].sawStart # None => result[t].uptime >= result[t].prevUp
            /\ result[t].afterStop => result[t].uptime = 0

\* C9 witness: a call reports a larger uptime than the non-zero uptime
\* reported before it.
C9_Witness ==
    \E t \in Threads :
        /\ Reported(t, "health")
        /\ result[t].sawStart # None
        /\ result[t].prevUp > 0
        /\ result[t].uptime > result[t].prevUp

SameAsStatus(t) ==
    /\ pc[t] = "health_ret"
    /\ lastStatus.probe # "pending"
    /\ lastStatus.clock = now
    /\ lastStatus.process = process
    /\ lastStatus.start_time = start_time

\* C11 as stated: for the same state and environment health returns the same
\* is_running, uptime_seconds and pid as status does.
C11_Original ==
    \A t \in Threads :
        SameAsStatus(t) =>
            /\ ret[t].running = lastStatus.running
            /\ ret[t].uptime = lastStatus.uptime
            /\ ret[t].pid = lastStatus.pid

\* C11 amended: for the same state and environment health returns the same
\* uptime_seconds and pid as status does, and the same is_running unless the
\* fallback probe of status got a successful HTTP status: health issues no
\* probe and reports is_running = false where status then reports true.
C11_HealthExtendsStatus ==
    \A t \in Threads :
        SameAsStatus(t) =>
            /\ ret[t].uptime = lastStatus.uptime
            /\ ret[t].pid = lastStatus.pid
            /\ lastStatus.probe # "success" => ret[t].running = lastStatus.running
            /\ lastStatus.probe = "success" =>
                   (lastStatus.running /\ ~ret[t].running /\ ret[t].pid = None)

\* C11 witness: health returns the PID and the non-zero uptime that status
\* returned for the same tracked worker at the same clock reading.
C11_Witness ==
    \E t \in Threads :
        /\ SameAsStatus(t)
        /\ process # None
        /\ ret[t].uptime > 0
        /\ ret[t].pid = lastStatus.pid

\* C12 as stated: health reports is_responsive = true only when the tracked
\* PID, at the time of the zero-signal probe, exists and is not a zombie: a
\* tracked worker that has exited and has not been reaped is not responsive.
C12_Original ==
    [][\A t \in Threads :
           (pc[t] = "health_responsive" /\ pc'[t] = "health_ret"
              /\ ret'[t].responsive)
               => os[ret[t].pid] = "running"]_vars

\* C13: a health call that has acquired the locks returns a BotHealth whatever
\* its OS queries do: a failed memory query gives memory_mb absent, a failed
\* zero-signal probe gives is_responsive = false, and is_running,
\* uptime_seconds and pid are what the state holds.
C13_HealthDegrades ==
    \A t \in Threads :
        /\ (op[t] = "health" /\ ~exited) =>
               pc[t] \in {"health_lock", "health_read", "health_memory",
                          "health_responsive", "health_ret"}
        /\ pc[t] = "health_ret" =>
               /\ ret[t].kind = "health"
               /\ "memory" \in ret[t].failed => ret[t].mem = "none"
               /\ "probe" \in ret[t].failed => ~ret[t].responsive
               /\ ret[t].running = (process # None)
               /\ ret[t].pid = process
               /\ ret[t].uptime = UptimeSeconds(start_time, now)

\* C13 witness: both OS queries of a health call on a tracked worker failed
\* and it is about to return is_running = true with a non-zero uptime.
C13_Witness ==
    \E t \in Threads :
        /\ pc[t] = "health_ret"
        /\ ret[t].failed = {"memory", "probe"}
        /\ ret[t].running
        /\ ret[t].uptime > 0

\* Positions of a thread inside get_bot_status and get_bot_health.
ReadingPcs ==
    {"status_lock", "status_read", "status_probe", "health_lock", "health_read",
     "health_memory", "health_responsive", "health_ret"}

\* C14: no step of a status or health call changes worker or started_at,
\* spawns a process or a listener, issues a terminating signal or a hard kill,
\* or reaps a process, whatever the fallback probe and the OS queries return.
C14_ReadOnly ==
    [][\A t \in Threads :
           (pc[t] \in ReadingPcs /\ pc'[t] # pc[t])
               => UNCHANGED <<process, start_time, os, nextPid, termHelpers, nHelpers,
                              hardKilled, listeners, nAttached>>]_vars

\* C14 witness: a status call whose fallback probe succeeded has returned
\* is_running = true, and nothing is tracked or alive.
C14_Witness ==
    \E t \in Threads :
        /\ Reported(t, "status")
        /\ result[t].probe = "success"
        /\ result[t].running
        /\ process = None
        /\ start_time = NoTime
        /\ Alive = {}
        /\ Reaped # {}

\* The numbers of the lines of pipe l that reached the log target, in the
\* order they reached it.
RECURSIVE Forwarded(_, _)
Forwarded(events, l) ==
    IF events = <<>> THEN <<>>
    ELSE LET e == Head(events) IN
         IF e.pid = l[1] /\ e.stream = l[2]
         THEN <<e.n>> \o Forwarded(Tail(events), l)
         ELSE Forwarded(Tail(events), l)

\* The numbers of the decodable lines among `lines`, in order.
RECURSIVE Decodable(_)
Decodable(lines) ==
    IF lines = <<>> THEN <<>>
    ELSE IF Head(lines).ok THEN <<Head(lines).n>> \o Decodable(Tail(lines))
         ELSE Decodable(Tail(lines))

\* Every decodable line written to a pipe has produced one event, in the
\* order written, or is still in the pipe; undecodable lines produce none;
\* stdout events have level Info, stderr events level Error.
LogOrder ==
    /\ \A l \in Pipes :
           Forwarded(sink, l) \o Decodable(pipe[l]) = Decodable(written[l])
    /\ \A i \in 1..Len(sink) :
           sink[i].level = IF sink[i].stream = "stdout" THEN "Info" ELSE "Error"

\* C15: for each stream every decodable line the worker writes yields exactly
\* one log event, in the order written, Info for stdout and Error for stderr;
\* an undecodable line yields none and the listener goes on; a listener ends
\* only at end-of-stream, having forwarded every decodable line written; and
\* once the worker has exited on its own, with no stop issued, each of its
\* listeners ends.
C15_LogForwarding ==
    /\ []LogOrder
    /\ [][\A l \in Pipes :
              (l \in listeners /\ l \notin listeners')
                  => /\ pipe[l] = <<>>
                     /\ os[l[1]] # "running"
                     /\ Forwarded(sink, l) = Decodable(written[l])]_vars
    /\ \A l \in Pipes :
           (l \in listeners /\ os[l[1]] = "exited") ~> (l \notin listeners)

\* C15 witness: the worker wrote an undecodable line and then a decodable one
\* to stdout and two decodable lines to stderr and exited on its own; with no
\* stop issued both listeners have ended and the log target holds the three
\* decodable lines, those of stderr in the order written.
C15_Witness ==
    \E p \in Pids :
        /\ os[p] = "exited"
        /\ nAttached = 2
        /\ listeners = {}
        /\ nHelpers = 0 /\ hardKilled = {}
        /\ written[<<p, "stdout">>] = <<[n |-> 1, ok |-> FALSE], [n |-> 2, ok |-> TRUE]>>
        /\ Forwarded(sink, <<p, "stdout">>) = <<2>>
        /\ Forwarded(sink, <<p, "stderr">>) = <<1, 2>>

\* Step in which thread t completes a lifecycle operation (start, stop or
\* restart): the entry point gets its result.
Completes(t) ==
    /\ result[t].kind = "none"
    /\ result'[t].kind \in {"started", "stopped", "already_running", "not_running",
                            "spawn_failure"}

\* The notification that matches a result: a status notification for a
\* success, an error notification with the message for a failure.
Matching(r) ==
    IF IsErr(r) THEN Event("bot-error", r.kind) ELSE Event("bot-status", r.kind)

StopPcs == {"stop_lock", "stop_term", "stop_kill", "stop_wait", "stop_clear", "stop_ret"}

\* C17 amended: the exit handler issues a stop; when that stop is about to
\* return, the worker it found tracked has been hard-killed and reaped and
\* stop returns success, or nothing was tracked and it returns NotRunning;
\* either way no worker is tracked or alive at that point, and the handler
\* returns and the application exits whatever the stop returned.
C17_ExitStops ==
    \A t \in Threads :
        /\ op[t] = "exit" => pc[t] \in StopPcs \/ exited
        /\ (StopReturning(t) /\ op[t] = "exit") =>
               /\ process = None
               /\ Alive = {}
               /\ snap[t].process # None =>
                      /\ ret[t].kind = "stopped"
                      /\ ret[t].pid = snap[t].process
                      /\ os[snap[t].process] = "reaped"
                      /\ snap[t].process \in hardKilled
               /\ snap[t].process = None => ret[t].kind = "not_running"
        /\ pc[t] = "exiting" => result[t].kind \in {"stopped", "not_running"}

\* C17 witness: the application has exited after the exit handler's stop
\* killed and reaped the tracked worker.
C17_Witness ==
    /\ exited
    /\ result["main"].kind = "stopped"
    /\ os[result["main"].pid] = "reaped"
    /\ Alive = {}

\* C17 as stated: when a worker was tracked as the exit was handled, so that
\* the handler's stop returned success, no supervisor-tracked worker survives
\* the exit.
C17_Original ==
    (exited /\ result["main"].kind = "stopped")
        => (process = None \/ os[process] = "reaped")

\* C18: when the OS refuses the spawn, start goes straight to its return with
\* the spawn error, having created no process and no listener; about to
\* return, it leaves worker and started_at None and holds no start_time lock;
\* returning, it releases the process lock, so that a later start can
\* acquire it and succeed.
C18_SpawnRefused ==
    /\ [][\A t \in Threads :
              (pc[t] = "start_spawn" /\ ret'[t].kind = "spawn_failure")
                  => /\ pc'[t] = "start_ret"
                     /\ UNCHANGED <<process, start_time, os, nextPid, listeners,
                                    nAttached>>]_vars
    /\ [](\A t \in Threads :
              (StartReturning(t) /\ ret[t].kind = "spawn_failure")
                  => /\ snap[t].process = None
                     /\ process = None
                     /\ start_time = NoTime
                     /\ nextPid = snap[t].spawned
                     /\ nAttached = snap[t].attached
                     /\ starts[t] = 1
                     /\ process_lock = t
                     /\ start_time_lock # t)
    /\ [][\A t \in Threads :
              (StartReturning(t) /\ ret[t].kind = "spawn_failure"
                 /\ pc'[t] \in {"idle", "gone"} /\ ~exited')
                  => /\ result'[t].kind = "spawn_failure"
                     /\ process_lock' = Free
                     /\ start_time_lock' = start_time_lock]_vars

\* C18 witness: a start is about to return a PID after an earlier start was
\* refused by the OS and returned the spawn error.
C18_Witness ==
    \E t, u \in Threads :
        /\ t # u
        /\ result[t].kind = "spawn_failure"
        /\ StartReturning(u)
        /\ ret[u].kind = "started"

\* What one step of stop_bot_internal by thread t does, by position.
StopStep(t) ==
    /\ pc[t] = "stop_lock" =>
           /\ start_time' = start_time
           /\ IF process # None
              THEN pc'[t] = "stop_term" /\ child'[t] = process /\ process' = None
              ELSE pc'[t] = "stop_ret"
    /\ pc[t] = "stop_term" =>
           /\ pc'[t] = "stop_kill"
           /\ termHelpers' \subseteq termHelpers \cup {child[t]}
           /\ nHelpers' \in {nHelpers, nHelpers + 1}
           /\ UNCHANGED <<process, start_time, os, hardKilled, child>>
    /\ pc[t] = "stop_kill" =>
           /\ pc'[t] = "stop_wait"
           /\ hardKilled' = hardKilled \cup {child[t]}
           /\ os'[child[t]] # "running"
           /\ UNCHANGED <<process, start_time, nHelpers, child>>
    /\ pc[t] = "stop_wait" =>
           /\ pc'[t] = "stop_clear"
           /\ child[t] \in hardKilled
           /\ os'[child[t]] = "reaped"
           /\ UNCHANGED <<process, start_time, nHelpers, hardKilled, child>>
    /\ pc[t] = "stop_clear" =>
           /\ pc'[t] = "stop_ret"
           /\ os[child[t]] = "reaped"
           /\ start_time' = NoTime
           /\ ret'[t].kind = "stopped" /\ ret'[t].pid = child[t]
           /\ UNCHANGED <<process, os, nHelpers, hardKilled>>
    /\ pc[t] = "stop_ret" =>
           /\ pc'[t] \in {"idle", "restart_sleep", "exiting"}
           /\ UNCHANGED <<process, start_time, os, nHelpers, hardKilled>>

\* C19: a stop takes the handle, issues the termination signal for its PID
\* (fire-and-forget, at most one helper), waits, hard-kills the same handle,
\* reaps it, clears started_at and returns, in this order and each once;
\* started_at is cleared by no other step than the one that follows the reap.
C19_StopOrder ==
    /\ [][\A t \in Threads :
              (pc[t] \in StopPcs /\ pc'[t] # pc[t] /\ ~exited') => StopStep(t)]_vars
    /\ [][(start_time # NoTime /\ start_time' = NoTime)
              => \E t \in Threads : pc[t] = "stop_clear" /\ os[child[t]] = "reaped"]_vars
    /\ [](\A t \in Threads :
              (StopReturning(t) /\ ret[t].kind = "stopped")
                  => /\ hardKilled = snap[t].killed \cup {ret[t].pid}
                     /\ Reaped = snap[t].reaped \cup {ret[t].pid}
                     /\ ret[t].pid \notin snap[t].reaped
                     /\ nHelpers \in {snap[t].helpers, snap[t].helpers + 1})

\* C19 witness: a stop that issued the termination signal, which has not been
\* delivered yet, is about to return success with started_at cleared.
C19_Witness ==
    \E t \in Threads :
        /\ StopReturning(t)
        /\ ret[t].kind = "stopped"
        /\ nHelpers = snap[t].helpers + 1
        /\ ret[t].pid \in termHelpers
        /\ start_time = NoTime
        /\ snap[t].start_time # NoTime

\* started_at is set if and only if a worker is tracked.
Paired == (start_time # NoTime) <=> (process # None)

\* C20 as stated: in every reachable state started_at is set if and only if
\* a worker is tracked.
C20_Original == Paired

\* C20 amended: while the application runs, started_at is set if and only if
\* a worker is tracked in every state in which no call holds the process
\* lock; the two differ only inside a start that has stored the handle and
\* not yet the time, or inside a stop that has taken the handle and not yet
\* cleared the time, and that call holds the process lock until both agree.
C20_PairedOutsideCalls ==
    ~exited =>
        /\ process_lock = Free => Paired
        /\ ~Paired =>
               \E t \in Threads :
                   /\ process_lock = t
                   /\ IF process # None
                      THEN pc[t] = "start_set_time"
                      ELSE pc[t] \in {"stop_term", "stop_kill", "stop_wait", "stop_clear"}
        /\ \A t \in Threads : (StartReturning(t) \/ StopReturning(t)) => Paired

\* C20 witness: no call holds the process lock, and a second worker is
\* tracked with started_at set after the first was stopped and reaped.
C20_Witness ==
    /\ ~exited
    /\ process_lock = Free
    /\ process # None
    /\ start_time # NoTime
    /\ Reaped # {}

\* C21: every status and health call reads worker and started_at while it
\* holds the process lock, and finds them both set or both unset: the pid it
\* returns is the tracked one, and a result with pid = None has uptime 0.
C21_NoPartialPair ==
    /\ \A t \in Threads :
           /\ pc[t] \in {"status_read", "health_read"} => (process_lock = t /\ Paired)
           /\ pc[t] \in {"health_memory", "health_responsive", "health_ret"} =>
                  /\ process_lock = t
                  /\ Paired
                  /\ ret[t].pid = process
                  /\ ret[t].pid = None => ret[t].uptime = 0
    /\ (lastStatus.process # None) <=> (lastStatus.start_time # NoTime)
    /\ lastStatus.pid = lastStatus.process
    /\ lastStatus.pid = None => lastStatus.uptime = 0

\* C21 witness: a health call holds both fields set, with a non-zero uptime,
\* while a stop by another thread waits for the process lock.
C21_Witness ==
    \E t, u \in Threads :
        /\ pc[t] = "health_ret"
        /\ ret[t].pid # None
        /\ ret[t].uptime > 0
        /\ pc[u] = "stop_lock"

\* Positions of a restart between its stop phase and its start phase: the
\* pause, and the wait for the process lock.
BetweenPcs == {"restart_sleep", "start_lock"}

\* C22 as stated: while a restart is between its stop phase and its start
\* phase, no other caller acquires the process lock or changes worker or
\* started_at.
C22_Original ==
    [][\A t \in Threads :
           (op[t] \in RestartOps /\ pc[t] \in BetweenPcs /\ pc'[t] \in BetweenPcs)
               => (process_lock' = Free /\ UNCHANGED <<process, start_time>>)]_vars

\* C22 amended: each phase of a restart is atomic, no other caller acquiring
\* the process lock or changing worker or started_at while it runs; between
\* the phases the restart holds no lock, and its start phase acts on the state
\* it finds when it acquires the lock: AlreadyRunning exactly when a worker is
\* tracked then, whatever its own stop phase did.
C22_RestartPhasesAtomic ==
    /\ [][\A t \in Threads :
              (op[t] \in RestartOps /\ process_lock = t /\ pc'[t] = pc[t])
                  => UNCHANGED <<process, start_time, process_lock>>]_vars
    /\ [](\A t \in Threads :
              (op[t] \in RestartOps /\ pc[t] \in BetweenPcs)
                  => (process_lock # t /\ start_time_lock # t))
    /\ [](\A t \in Threads :
              (op[t] \in RestartOps /\ StartReturning(t))
                  => (ret[t].kind = "already_running" <=> snap[t].process # None))

\* C22 witness: a restart whose stop phase stopped the worker is about to
\* return AlreadyRunning, another caller having started a worker in between.
C22_Witness ==
    \E t \in Threads :
        /\ op[t] \in RestartOps
        /\ StartReturning(t)
        /\ stopRet[t].kind = "stopped"
        /\ ret[t].kind = "already_running"

\* A step of the listener thread of pipe l: it takes a line from the pipe, or
\* it ends.
ListenerStep(l) ==
    \/ Len(pipe'[l]) < Len(pipe[l])
    \/ l \in listeners /\ l \notin listeners'

\* C23: the locks of BotState are only ever held by the threads that run
\* lifecycle operations; a step of a listener thread leaves worker, started_at
\* and both locks as they are; and a listener with a line to read, or at
\* end-of-stream, can take its step whoever holds the locks.
C23_ListenersApart ==
    /\ [](process_lock \in Threads \cup {Free} /\ start_time_lock \in Threads \cup {Free})
    /\ [][\A l \in Pipes :
              ListenerStep(l)
                  => UNCHANGED <<process, start_time, process_lock, start_time_lock,
                                 pc>>]_vars
    /\ [](\A l \in listeners :
              /\ pipe[l] # <<>> => ENABLED ListenerRead(l)
              /\ (pipe[l] = <<>> /\ os[l[1]] # "running") => ENABLED ListenerEof(l))

\* C23 witness: a listener has forwarded a line while the start call that
\* attached it still holds the process lock.
C23_Witness ==
    /\ sink # <<>>
    /\ process_lock = "auto"
    /\ \E l \in listeners : pipe[l] # <<>>

PipesOf(p) == {<<p, s>> : s \in Streams}

\* C25: a start about to return success has attached exactly two listeners,
\* one on the stdout and one on the stderr of the worker it spawned; a start
\* about to return a failure has attached none; a listener is attached only
\* by a step of a start between its spawn and its storing of the handle, one
\* listener per step, on a pipe of the new worker that has no listener yet.
C25_TwoListenersPerStart ==
    /\ [](\A t \in Threads :
              StartReturning(t) =>
                  IF ret[t].kind = "started"
                  THEN /\ nAttached = snap[t].attached + 2
                       /\ PipesOf(ret[t].pid) \subseteq listeners
                       /\ ret[t].pid = snap[t].spawned
                  ELSE /\ nAttached = snap[t].attached
                       /\ nextPid = snap[t].spawned)
    /\ [][(nAttached' # nAttached \/ ~(listeners' \subseteq listeners)) =>
              \E t \in Threads : \E s \in Streams :
                  /\ pc[t] = (IF s = "stdout" THEN "start_listen_out" ELSE "start_listen_err")
                  /\ pc'[t] = (IF s = "stdout" THEN "start_listen_err" ELSE "start_store")
                  /\ process_lock = t
                  /\ child[t] = nextPid - 1
                  /\ <<child[t], s>> \notin listeners
                  /\ listeners' = listeners \cup {<<child[t], s>>}
                  /\ nAttached' = nAttached + 1]_vars

\* C25 witness: the start of a second worker is about to return its PID with
\* two more listeners attached, four in all.
C25_Witness ==
    \E t \in Threads :
        /\ StartReturning(t)
        /\ ret[t].kind = "started"
        /\ snap[t].attached = 2
        /\ nAttached = 4
        /\ Cardinality(listeners) = 4

\* The running listener threads of worker p.
ListenersOf(p) == listeners \cap PipesOf(p)

\* C26 as stated: never more than two listener threads run, and while the
\* tracked worker is alive the running listeners are the two of its pipes.
C26_Original ==
    /\ Cardinality(listeners) <= 2
    /\ (process # None /\ os[process] = "running") => listeners = PipesOf(process)

\* C26 amended: a running worker has one listener thread on each of its two
\* pipes from the moment it is tracked, and on none or stdout only or both
\* while the start that spawned it is attaching them; at most one worker is
\* running, so at most two listeners run on the pipes of a running worker;
\* every other running listener belongs to an earlier worker that has exited
\* or been reaped and has not yet seen end-of-stream.
C26_ListenersPerWorker ==
    /\ (process # None /\ os[process] = "running") =>
           ListenersOf(process) = PipesOf(process)
    /\ \A p \in Pids :
           os[p] = "running" =>
               \/ ListenersOf(p) = PipesOf(p)
               \/ \E t \in Threads :
                      /\ child[t] = p
                      /\ process = None
                      /\ \/ pc[t] = "start_listen_out" /\ ListenersOf(p) = {}
                         \/ pc[t] = "start_listen_err" /\ ListenersOf(p) = {<<p, "stdout">>}
    /\ Cardinality({l \in listeners : os[l[1]] = "running"}) <= 2
    /\ \A l \in listeners : os[l[1]] \in {"running", "exited", "reaped"}

\* C26 witness: a restart has stored the handle of the worker it spawned, whose
\* two listeners run, while the two listeners of the worker it stopped and
\* reaped have not yet ended.
C26_Witness ==
    \E t \in Threads : \E p \in Pids :
        /\ op[t] \in RestartOps
        /\ pc[t] = "start_set_time"
        /\ os[process] = "running"
        /\ ListenersOf(process) = PipesOf(process)
        /\ p # process
        /\ os[p] = "reaped"
        /\ ListenersOf(p) = PipesOf(p)

\* C27: a thread acquires the start_time lock only while it holds the process
\* lock and never acquires the process lock while it holds the start_time
\* lock, so whoever holds the start_time lock holds the process lock; and
\* every call that has begun returns.
C27_NoDeadlock ==
    /\ [](\A t \in Threads : start_time_lock = t => process_lock = t)
    /\ [][\A t \in Threads :
              /\ (start_time_lock # t /\ start_time_lock' = t) => process_lock = t
              /\ (process_lock # t /\ process_lock' = t) => start_time_lock # t]_vars
    /\ \A t \in Threads : (pc[t] # "idle") ~> (pc[t] = "idle")

\* C27 witness: a start that has stored the handle holds the process lock and
\* is about to acquire the start_time lock, while a health call waits for the
\* process lock.
C27_Witness ==
    \E t, u \in Threads :
        /\ pc[t] = "start_set_time"
        /\ process_lock = t
        /\ start_time_lock = Free
        /\ pc[u] = "health_lock"

\* C28 as stated: the `kill -TERM pid` helper a stop spawned delivers its
\* signal only while the worker that stop took is still in the process table,
\* never after that worker has been reaped.
C28_Original ==
    [][\A p \in Pids :
           (p \in termHelpers /\ p \notin termHelpers')
               => os[p] \in {"running", "exited"}]_vars

\* Positions of a stop inside its termination sequence, from the taking of
\* the handle to the return; the process lock is held throughout.
StopSequencePcs == {"stop_term", "stop_kill", "stop_wait", "stop_clear", "stop_ret"}

\* C29: of two stop calls only one at a time is past the taking of the
\* handle, the other waiting for the process lock until the first has
\* returned; a stop returns success exactly when it found a worker tracked,
\* and that worker has not been killed or reaped before; so a stop that
\* acquires the lock after another stop has stopped the worker, with no worker
\* spawned since, returns NotRunning and issues no signal, kill or wait.
C29_ConcurrentStops ==
    \A t \in Threads :
        /\ pc[t] \in StopSequencePcs =>
               /\ process_lock = t
               /\ \A u \in Threads \ {t} : pc[u] \notin StopSequencePcs
        /\ pc[t] \in StopSequencePcs \ {"stop_ret"} =>
               /\ child[t] = snap[t].process
               /\ child[t] \notin snap[t].killed \cup snap[t].reaped
        /\ StopReturning(t) =>
               /\ ret[t].kind = "stopped" <=> snap[t].process # None
               /\ ret[t].kind = "not_running" <=> snap[t].process = None
               /\ \A u \in Threads \ {t} :
                      (result[u].kind = "stopped" /\ result[u].pid = nextPid - 1) =>
                          /\ ret[t].kind = "not_running"
                          /\ nHelpers = snap[t].helpers
                          /\ hardKilled = snap[t].killed
                          /\ Reaped = snap[t].reaped

\* C29 witness: a stop has signalled, killed and reaped the tracked worker
\* and is about to return success while a second stop waits for the process
\* lock.
C29_Witness ==
    \E t, u \in Threads :
        /\ StopReturning(t)
        /\ ret[t].kind = "stopped"
        /\ ret[t].pid \in hardKilled
        /\ nHelpers = snap[t].helpers + 1
        /\ op[u] \in StopOps
        /\ pc[u] = "stop_lock"

\* The tracked worker has exited and is still in the process table.
TrackedExited == process # None /\ os[process] = "exited"

\* C30: worker and started_at change only in a step of a start or of a stop,
\* never when the worker process exits; while a worker is tracked, exited or
\* not, started_at stays set outside calls, status and health return
\* is_running = true with its pid, start returns AlreadyRunning; and a stop
\* that finds it returns success having reaped it and cleared both fields.
C30_RecordOnlyByStartStop ==
    /\ [][(process' # process \/ start_time' # start_time) =>
              \E t \in Threads :
                  /\ pc[t] \in {"stop_lock", "stop_clear", "start_store", "start_set_time"}
                  /\ pc'[t] # pc[t]
                  /\ os' = os]_vars
    /\ [](TrackedExited /\ process_lock = Free => start_time # NoTime)
    /\ [](\A t \in Threads :
              /\ (pc[t] = "health_ret" /\ process # None) =>
                     (ret[t].running /\ ret[t].pid = process)
              /\ (StartReturning(t) /\ snap[t].process # None) =>
                     /\ ret[t].kind = "already_running"
                     /\ process = snap[t].process
                     /\ start_time = snap[t].start_time
              /\ (StopReturning(t) /\ snap[t].process # None) =>
                     /\ ret[t].kind = "stopped"
                     /\ os[snap[t].process] = "reaped"
                     /\ process = None
                     /\ start_time = NoTime)
    /\ [](lastStatus.process # None =>
              (lastStatus.running /\ lastStatus.pid = lastStatus.process))

\* C30 witness: the tracked worker exited on its own, no signal having been
\* issued, and a start is about to return AlreadyRunning with the record as
\* it was.
C30_Witness ==
    \E t \in Threads :
        /\ TrackedExited
        /\ nHelpers = 0
        /\ hardKilled = {}
        /\ StartReturning(t)
        /\ ret[t].kind = "already_running"
        /\ start_time # NoTime

\* A start is about to return that found nothing tracked, the last status
\* call having returned is_running = true with pid = None because its
\* fallback probe got a successful HTTP status.
StartAfterProbe(t) ==
    /\ StartReturning(t)
    /\ snap[t].process = None
    /\ lastStatus.probe = "success"
    /\ lastStatus.running
    /\ lastStatus.pid = None

\* C31 as stated: such a start does not return AlreadyRunning but spawns and
\* tracks a new worker.
C31_Original ==
    \A t \in Threads :
        StartAfterProbe(t) =>
            /\ ret[t].kind = "started"
            /\ process = ret[t].pid
            /\ nextPid = snap[t].spawned + 1

\* C31 amended: such a start never returns AlreadyRunning: it attempts the
\* spawn, and spawns and tracks a new worker with started_at set unless the OS
\* refuses the spawn, in which case it returns the spawn error and tracks
\* nothing.
C31_StartIgnoresProbe ==
    \A t \in Threads :
        StartAfterProbe(t) =>
            /\ ret[t].kind \in {"started", "spawn_failure"}
            /\ ret[t].kind = "started" =>
                   /\ process = ret[t].pid
                   /\ ret[t].pid = snap[t].spawned
                   /\ nextPid = snap[t].spawned + 1
                   /\ os[ret[t].pid] \in {"running", "exited"}
                   /\ start_time # NoTime
            /\ ret[t].kind = "spawn_failure" =>
                   /\ process = None
                   /\ start_time = NoTime
                   /\ nextPid = snap[t].spawned

\* C31 witness: after a status call reported is_running = true with pid =
\* None on a successful probe, a start is about to return the PID of the worker
\* it spawned and tracks.
C31_Witness ==
    \E t \in Threads :
        /\ StartAfterProbe(t)
        /\ ret[t].kind = "started"
        /\ process = ret[t].pid

\* C32 as stated: an entry point that has emitted a stopped status
\* notification has had success returned by its stop; none is emitted for a
\* stop that returned NotRunning.
C32_Original ==
    \A t \in Threads :
        (\E i \in 1..Len(emitted[t]) : emitted[t][i] = Event("bot-status", "stopped"))
            => result[t].kind = "stopped"
====
